---------------------------- MODULE Spec2Model ----------------------------
(***************************************************************************)
(* State-machine model of SynchronizedWorker::Thread                       *)
(* (src/SynchronizedWorkerThread.cpp): one worker thread running           *)
(* RunThread, and controller threads calling Start, Stop, Pause, Resume,   *)
(* moveToState and waitForState.                                           *)
(*                                                                         *)
(* Granularity.  Every access to currentState, desiredState, the eventfd   *)
(* and mEventfdMutex is a step of its own, so that the interleavings of    *)
(* the worker with the controllers are those of the code.  Logging is left *)
(* out (it touches none of the state).                                     *)
(*                                                                         *)
(* The eventfd.  The code never uses the counter value that eventfd_read   *)
(* returns; poll and eventfd_read only tell zero from non-zero.  event_fd  *)
(* is therefore 0 (nothing pending) or 1 (pending): a write makes it 1, a  *)
(* read makes it 0.                                                        *)
(*                                                                         *)
(* The unlocked store.  RunThread line 105 stores currentState without     *)
(* mEventfdMutex while waitForState reads it under the mutex: a data race. *)
(* The store is a single aligned word, program-ordered after the handler   *)
(* returns and before the next consumeState takes the mutex, so the        *)
(* outcomes a build can produce are the store taking effect at any point   *)
(* between those two; that is the step ResetToIdle, which needs no lock    *)
(* and interleaves with every controller step.                             *)
(*                                                                         *)
(* Time.  wait_for's 3 s bound is a real-time bound.  The model lets it    *)
(* elapse only in states where no thread has a step to take (the worker is *)
(* blocked, never started or finished, and no controller is inside a       *)
(* critical section): a thread that can run is taken to run within 3 s.    *)
(*                                                                         *)
(* A fatal log (LOG_ALWAYS_FATAL_IF) aborts the process: fatal records     *)
(* which one, and no thread takes a step afterwards.                       *)
(***************************************************************************)
EXTENDS Naturals, FiniteSets

\* Number of controller threads of the largest configuration explored.
MaxThreads == 2

Threads == 1..MaxThreads

\* AsyncState (the enumeration named at lines 37-42).
Invalid == "Invalid"
Idle == "Idle"
PauseState == "Pause"
Authenticate == "Authenticate"
Enroll == "Enroll"
StopState == "Stop"

AsyncState == {Invalid, Idle, PauseState, Authenticate, Enroll, StopState}

\* The states a controller may request (Invalid is the "nothing pending"
\* sentinel and is never requested).
Requestable == AsyncState \ {Invalid}

\* Owner values of mEventfdMutex: a controller thread is its number, Worker
\* is the worker thread, NoOwner is unlocked.
Worker == MaxThreads + 1
NoOwner == MaxThreads + 2

\* The operations of Thread that post a request.  Pause() is
\* waitForState(Pause) and Resume() is moveToState(Idle) (lines 124-132).
Operations == {"moveToState", "waitForState", "Stop", "~Thread"}

\* The operations that run Stop's body: Stop() itself and the destructor
\* (lines 63-67).
StopOps == {"Stop", "~Thread"}

\* How a WorkHandler body behaves once entered: it returns on its own
\* ("returns"), it returns once the eventfd is readable, as the default
\* IdleAsync does ("cancellable"), or it never returns ("stalls").
HandlerModes == {"returns", "cancellable", "stalls"}

VARIABLES
    currentState,   \* Thread::currentState
    desiredState,   \* Thread::desiredState
    event_fd,       \* the eventfd: 0 nothing pending, 1 readable
    mEventfdMutex,  \* owner of the mutex
    joinable,       \* thread.joinable()
    wpc,            \* where the worker thread is
    state,          \* consumeState's local `state` / RunThread's nextState
    gotEvent,       \* consumeState: eventfd_read returned 0
    hmode,          \* behaviour of the handler body the worker is in
    threads,        \* the controller threads of this run
    pc,             \* where each controller thread is
    op,             \* the operation each controller thread is in
    req,            \* the state that operation requests
    result,         \* what the thread's last operation returned: "none" while
                    \* one runs and for Stop, else "true" or "false"
    fatal,          \* "none", or the fatal log that aborted the process
    \* history variables, read only by the properties
    ioFault,        \* an eventfd_write or a poll has failed
    lastReq,        \* the state of the latest store to desiredState not yet consumed
    replaced,       \* that store replaced another, unconsumed, state
    failedStore,    \* the eventfd_write that followed that store has failed
    lost,           \* the waiting thread's request was replaced by another state
    served,         \* a consume read an event since the waiting thread posted
    immediate,      \* the wait ended at wait_for's first test of the predicate
    script,         \* progress of the calls so far through the sequence
                    \* Start(); Pause() = true; Resume() = true: "fresh",
                    \* "pausing", "paused", "resuming", "resumed", or "other";
                    \* "pauseFailed" when that Pause() returned false
    victim          \* the thread whose wait timed out

vars == << currentState, desiredState, event_fd, mEventfdMutex, joinable, wpc,
           state, gotEvent, hmode, threads, pc, op, req, result, fatal,
           ioFault, lastReq, replaced, failedStore, lost, served, immediate, script,
           victim >>

shared == << currentState, desiredState, event_fd, mEventfdMutex >>
workerVars == << wpc, state, gotEvent, hmode >>
callVars == << op, req, result >>
pending == << lastReq, replaced, failedStore >>
waitHistory == << lost, served, immediate >>
history == << ioFault, pending, waitHistory, script, victim >>

----------------------------------------------------------------------------
\* Pure parts of the code, as operators.

\* The values currentState may hold before the first consume: the member's
\* initialiser is in the class declaration.
InitialCurrentState == {Invalid, Idle}

\* RunThread's switch (lines 84-104): where the worker goes with nextState.
DispatchMutantStopFallsThrough(s) ==
    CASE s = Idle -> "IdleAsync"
      [] s = PauseState -> "PauseWait"
      [] s = Authenticate -> "AuthenticateAsync"
      [] s = Enroll -> "EnrollAsync"
      [] OTHER -> "reset"

Dispatch(s) ==
    CASE s = Idle -> "IdleAsync"
      [] s = PauseState -> "PauseWait"
      [] s = Authenticate -> "AuthenticateAsync"
      [] s = Enroll -> "EnrollAsync"
      [] s = StopState -> "exited"
      [] OTHER -> "reset"

\* The worker positions inside a case of RunThread's switch.
InDispatch == {"IdleAsync", "PauseWait", "AuthenticateAsync", "EnrollAsync"}

\* The worker positions inside consumeState's critical section.
InConsume == {"read", "setCurrent", "setDesired", "notify"}

\* The controller positions between taking the mutex and releasing it.
InCritical == {"setDesired", "signal", "check", "return", "join"}

\* The behaviours a case of the switch may meet: the Pause case is the code's
\* own poll, the others are WorkHandler bodies; the cases without a body have
\* none.
ModesOf(s) ==
    CASE s = PauseState -> {"cancellable"}
      [] s \in {Idle, Authenticate, Enroll} -> HandlerModes
      [] OTHER -> {"cancellable"}

\* isEventAvailable(-1), lines 156-173: poll returns once the eventfd is
\* readable.
isEventAvailable == event_fd = 1

\* The body the worker is in returns now.
HandlerMayReturnMutantDeaf == hmode = "returns"

HandlerMayReturn ==
    \/ hmode = "returns"
    \/ hmode = "cancellable" /\ isEventAvailable

\* consumeState lines 137-145: the state consumed, given whether eventfd_read
\* succeeded and the value of desiredState.
ConsumedStateMutantNoDefault(got, desired) == desired

ConsumedStateMutantStale(got, desired) == IF got THEN currentState ELSE Idle

ConsumedState(got, desired) == IF got THEN desired ELSE Idle

\* consumeState line 149: currentState after a consume of st.
CurrentAfterConsumeMutantKeep(current, st) == current

CurrentAfterConsume(current, st) == st

\* consumeState line 150: desiredState after a consume.
DesiredAfterConsumeMutantKeep(desired) == desired

DesiredAfterConsume(desired) == Invalid

\* The owner of the mutex when consumeState returns (line 154: the
\* unique_lock goes out of scope).
MutexAfterConsumeMutantHeld == Worker

MutexAfterConsume == NoOwner

\* moveToState line 195: desiredState after a request for s.
DesiredAfterMoveMutantKeepFirst(desired, s) ==
    IF desired = Invalid THEN s ELSE desired

DesiredAfterMove(desired, s) == s

\* moveToState lines 191-193: an unconsumed request is overwritten with a
\* warning (ALOGW), no fatal log.
AfterOverwriteMutantFatal(desired) ==
    IF desired = Invalid THEN "none" ELSE "overwrite"

AfterOverwrite(desired) == "none"

\* std::unique_lock's constructor (lines 114, 135, 176, 181) and wait_for's
\* re-lock: the mutex can be taken.
CanLockMutantNoMutex == TRUE

CanLock == mEventfdMutex = NoOwner

\* waitForState lines 216-218: the predicate of wait_for.
WaitPredicateMutantAnyState(t) == currentState # Invalid

WaitPredicate(t) == currentState = req[t]

\* waitForState lines 216-223: wait_for gave up with the predicate false.
TimeoutOutcomeMutantReturnFalse == "none"

TimeoutOutcome == "timeout"

\* The operations that go through waitForState (lines 118, 126, 182).
Waits(o) == o \in {"waitForState"} \cup StopOps

\* Resume line 131: the state Resume() requests.
\* What follows the eventfd_write of operation o (moveToState lines 197-200,
\* waitForState lines 209-213, Stop line 119): waitForState and Stop wait
\* when it succeeded; a failure is returned, except in Stop, where it is
\* fatal.
AfterWriteMutantWaitAnyway(ok, o) ==
    IF Waits(o) THEN "wait" ELSE "return"

AfterWrite(ok, o) ==
    CASE ok /\ Waits(o) -> "wait"
      [] ~ok /\ o \in StopOps -> "fatal"
      [] OTHER -> "return"

\* Stop line 116: Stop's body does nothing when the thread is not joinable.
NothingToStopMutantNeverSkips(o) == FALSE

NothingToStop(o) == o \in StopOps /\ ~joinable

\* RunThread line 105: the value currentState gets once a case of the
\* switch has broken out of it.
AfterDispatchMutantNoReset(current) == current

AfterDispatch(current) == Idle

\* consumeState line 139: eventfd_read takes the whole counter, leaving
\* nothing pending.
AfterReadMutantStillPending(fd) == fd

AfterRead(fd) == 0

ResumeTargetMutantPause == PauseState

ResumeTarget == Idle

----------------------------------------------------------------------------
\* Scheduling predicates.

Running == fatal = "none"

\* The destructor has been entered (lines 63-67): the object is going away
\* or gone.
Destroying == \E t \in threads : op[t] = "~Thread" \/ pc[t] \in {"close", "destroyed"}

\* The destructor has closed the eventfd (line 66).
Closed == \E t \in threads : pc[t] = "destroyed"

\* The worker has no step to take until a controller acts.
WorkerBlocked ==
    \/ wpc \in {"notStarted", "exited"}
    \/ wpc \in InDispatch /\ ~HandlerMayReturn

\* No controller has a step to take inside an operation.
ControllersIdle ==
    \A t \in threads :
        \/ pc[t] = "ready"
        \/ pc[t] = "wait" /\ ~WaitPredicate(t)

----------------------------------------------------------------------------
Init ==
    /\ currentState \in InitialCurrentState
    /\ desiredState = Invalid
    /\ event_fd = 0
    /\ mEventfdMutex = NoOwner
    /\ joinable = FALSE
    /\ wpc = "notStarted"
    /\ state = Idle
    /\ gotEvent = FALSE
    /\ hmode = "cancellable"
    /\ threads \in {1..n : n \in 1..MaxThreads}
    /\ pc = [t \in Threads |-> "ready"]
    /\ op = [t \in Threads |-> "none"]
    /\ req = [t \in Threads |-> Invalid]
    /\ result = [t \in Threads |-> "none"]
    /\ fatal = "none"
    /\ ioFault = FALSE
    /\ lastReq = Invalid
    /\ replaced = FALSE
    /\ failedStore = FALSE
    /\ lost = [t \in Threads |-> FALSE]
    /\ served = [t \in Threads |-> FALSE]
    /\ immediate = [t \in Threads |-> FALSE]
    /\ script = "fresh"
    /\ victim = NoOwner

\* One controller thread.
InitSingle == Init /\ threads = {1}

----------------------------------------------------------------------------
\* The worker thread.

\* Thread::Start (line 110): spawn the worker.
Start ==
    /\ Running
    /\ ~Destroying
    /\ wpc = "notStarted"
    /\ \E t \in threads : pc[t] = "ready"
    /\ wpc' = "consume"
    /\ joinable' = TRUE
    /\ UNCHANGED << shared, state, gotEvent, hmode, threads, pc, callVars,
                    fatal, history >>

\* consumeState line 135: take the mutex.
ConsumeLock ==
    /\ Running
    /\ wpc = "consume"
    /\ CanLock
    /\ mEventfdMutex' = Worker
    /\ wpc' = "read"
    /\ UNCHANGED << currentState, desiredState, event_fd, joinable, state,
                    gotEvent, hmode, threads, pc, callVars, fatal, history >>

\* consumeState lines 137-145: eventfd_read, the fatal check, state.
ConsumeRead ==
    /\ Running
    /\ wpc = "read"
    /\ gotEvent' = (event_fd = 1)
    /\ event_fd' = AfterRead(event_fd)
    /\ IF event_fd = 1 /\ desiredState = Invalid
         THEN /\ fatal' = "invalid"
              /\ UNCHANGED << wpc, state >>
         ELSE /\ state' = ConsumedState(event_fd = 1, desiredState)
              /\ wpc' = "setCurrent"
              /\ UNCHANGED fatal
    /\ served' = [t \in Threads |->
                    served[t] \/ (event_fd = 1 /\ pc[t] = "wait")]
    /\ UNCHANGED << currentState, desiredState, mEventfdMutex, joinable,
                    hmode, threads, pc, callVars, ioFault, pending, lost,
                    immediate, script, victim >>

\* consumeState line 149.
ConsumeSetCurrent ==
    /\ Running
    /\ wpc = "setCurrent"
    /\ currentState' = CurrentAfterConsume(currentState, state)
    /\ wpc' = "setDesired"
    /\ UNCHANGED << desiredState, event_fd, mEventfdMutex, joinable, state,
                    gotEvent, hmode, threads, pc, callVars, fatal, history >>

\* consumeState line 150.
ConsumeSetDesired ==
    /\ Running
    /\ wpc = "setDesired"
    /\ desiredState' = DesiredAfterConsume(desiredState)
    /\ wpc' = "notify"
    /\ UNCHANGED << currentState, event_fd, mEventfdMutex, joinable, state,
                    gotEvent, hmode, threads, pc, callVars, fatal, history >>

\* consumeState lines 151-154 and RunThread lines 82-100: notify_all, release
\* the mutex, return the state and enter its case of the switch.
ConsumeReturn ==
    /\ Running
    /\ wpc = "notify"
    /\ mEventfdMutex' = MutexAfterConsume
    /\ wpc' = Dispatch(state)
    /\ hmode' \in ModesOf(state)
    /\ state' = Idle
    /\ gotEvent' = FALSE
    /\ lastReq' = Invalid
    /\ replaced' = FALSE
    /\ failedStore' = FALSE
    /\ UNCHANGED << currentState, desiredState, event_fd, joinable, threads,
                    pc, callVars, fatal, ioFault, waitHistory, script,
                    victim >>

\* RunThread lines 86-96, IdleAsync lines 51-54, isEventAvailable lines
\* 156-173: the handler body, or the Pause case's poll, returns; with
\* failed = TRUE it is the poll that returned an error (cnt < 0).
HandlerReturn(failed) ==
    /\ Running
    /\ wpc \in InDispatch
    /\ IF failed
         THEN hmode = "cancellable" /\ wpc \in {"IdleAsync", "PauseWait"}
         ELSE HandlerMayReturn
    /\ ioFault' = (ioFault \/ failed)
    /\ wpc' = "reset"
    /\ hmode' = "cancellable"
    /\ UNCHANGED << shared, joinable, state, gotEvent, threads, pc, callVars,
                    fatal, pending, waitHistory, script, victim >>

\* RunThread line 105: currentState = Idle, without the mutex.
ResetToIdle ==
    /\ Running
    /\ wpc = "reset"
    /\ currentState' = AfterDispatch(currentState)
    /\ wpc' = "consume"
    /\ UNCHANGED << desiredState, event_fd, mEventfdMutex, joinable, state,
                    gotEvent, hmode, threads, pc, callVars, fatal, history >>

----------------------------------------------------------------------------
\* A controller thread t.

\* Thread t calls operation o for state s; sc is where that takes the
\* calls in the sequence Start(); Pause(); Resume().
Call(t, o, s, sc) ==
    /\ Running
    /\ ~Destroying
    /\ pc[t] = "ready"
    /\ op' = [op EXCEPT ![t] = o]
    /\ req' = [req EXCEPT ![t] = s]
    /\ script' = sc
    /\ result' = [result EXCEPT ![t] = "none"]
    /\ pc' = [pc EXCEPT ![t] = "lock"]
    /\ UNCHANGED << shared, joinable, workerVars, threads, fatal, ioFault,
                    pending, waitHistory, victim >>

\* Lines 175-178.
moveToState(t, s) == Call(t, "moveToState", s, "other")

\* Lines 180-183.
waitForState(t, s) == Call(t, "waitForState", s, "other")

\* Lines 113-122.
Stop(t) == Call(t, "Stop", StopState, "other")

\* Lines 63-67: the destructor runs Stop() and closes the eventfd.  The
\* object is destroyed by one thread while no other thread is inside one of
\* its operations, and no operation is called on it from then on.
Destructor(t) ==
    /\ \A u \in threads : pc[u] = "ready"
    /\ Call(t, "~Thread", StopState, "other")

\* Line 66: close(event_fd).
Close(t) ==
    /\ Running
    /\ pc[t] = "close"
    /\ pc' = [pc EXCEPT ![t] = "destroyed"]
    /\ UNCHANGED << shared, joinable, workerVars, threads, callVars, fatal,
                    history >>

\* Lines 124-127.
Pause(t) ==
    Call(t, "waitForState", PauseState,
         IF script = "fresh" /\ wpc # "notStarted" THEN "pausing" ELSE "other")

\* Lines 129-132.
Resume(t) ==
    Call(t, "moveToState", ResumeTarget,
         IF script = "paused" THEN "resuming" ELSE "other")

\* What the end of an operation leaves of it: the unique_lock goes out of
\* scope (lines 122, 178, 183) and the caller has the value r; the
\* destructor goes on to close the eventfd.
Finish(t, r) ==
    /\ mEventfdMutex' = NoOwner
    /\ pc' = [pc EXCEPT ![t] = IF op[t] = "~Thread" THEN "close" ELSE "ready"]
    /\ result' = [result EXCEPT ![t] = r]
    /\ script' = CASE script = "pausing" /\ r = "true" -> "paused"
                   [] script = "pausing" /\ r = "false" -> "pauseFailed"
                   [] script = "resuming" /\ r = "true" -> "resumed"
                   [] OTHER -> "other"
    /\ op' = [op EXCEPT ![t] = "none"]
    /\ req' = [req EXCEPT ![t] = Invalid]
    /\ lost' = [lost EXCEPT ![t] = FALSE]
    /\ served' = [served EXCEPT ![t] = FALSE]
    /\ immediate' = [immediate EXCEPT ![t] = FALSE]

\* Lines 114-116, 176, 181: take the mutex; Stop returns at once when the
\* thread is not joinable.
Lock(t) ==
    /\ Running
    /\ pc[t] = "lock"
    /\ CanLock
    /\ IF NothingToStop(op[t])
         THEN Finish(t, "none")
         ELSE /\ mEventfdMutex' = t
              /\ pc' = [pc EXCEPT ![t] = "setDesired"]
              /\ UNCHANGED << callVars, waitHistory, script >>
    /\ UNCHANGED << currentState, desiredState, event_fd, joinable,
                    workerVars, threads, fatal, ioFault, pending, victim >>

\* moveToState lines 191-195: warn when a request is pending, store the new
\* one.
SetDesired(t) ==
    /\ Running
    /\ pc[t] = "setDesired"
    /\ desiredState' = DesiredAfterMove(desiredState, req[t])
    /\ fatal' = AfterOverwrite(desiredState)
    /\ pc' = [pc EXCEPT ![t] = "signal"]
    /\ lastReq' = req[t]
    /\ replaced' = (desiredState \notin {Invalid, req[t]})
    /\ failedStore' = FALSE
    /\ lost' = [u \in Threads |->
                  lost[u] \/ (pc[u] = "wait" /\ ~served[u] /\ req[u] # req[t])]
    /\ UNCHANGED << currentState, event_fd, mEventfdMutex, joinable,
                    workerVars, threads, callVars, ioFault, served, immediate,
                    script, victim >>

\* moveToState lines 197-200, waitForState lines 209-213, Stop line 119:
\* eventfd_write.  moveToState returns whether it succeeded; waitForState
\* returns false when it failed, which is fatal in Stop.
Signal(t) ==
    /\ Running
    /\ pc[t] = "signal"
    /\ \E ok \in BOOLEAN :
         /\ event_fd' = IF ok THEN 1 ELSE event_fd
         /\ ioFault' = (ioFault \/ ~ok)
         /\ failedStore' = ~ok
         /\ CASE AfterWrite(ok, op[t]) = "wait" ->
                   /\ pc' = [pc EXCEPT ![t] = "check"]
                   /\ UNCHANGED << mEventfdMutex, callVars, waitHistory,
                                   script, fatal >>
              [] AfterWrite(ok, op[t]) = "fatal" ->
                   /\ fatal' = "stopFailed"
                   /\ UNCHANGED << mEventfdMutex, pc, callVars, waitHistory,
                                   script >>
              [] OTHER ->
                   /\ Finish(t, IF ok THEN "true" ELSE "false")
                   /\ UNCHANGED fatal
    /\ UNCHANGED << currentState, desiredState, joinable, workerVars,
                    threads, lastReq, replaced, victim >>

\* waitForState line 216: wait_for tests the predicate before it waits; when
\* false it releases the mutex and blocks.
FirstCheck(t) ==
    /\ Running
    /\ pc[t] = "check"
    /\ IF WaitPredicate(t)
         THEN /\ pc' = [pc EXCEPT ![t] = "return"]
              /\ immediate' = [immediate EXCEPT ![t] = TRUE]
              /\ UNCHANGED mEventfdMutex
         ELSE /\ pc' = [pc EXCEPT ![t] = "wait"]
              /\ mEventfdMutex' = NoOwner
              /\ UNCHANGED immediate
    /\ UNCHANGED << currentState, desiredState, event_fd, joinable,
                    workerVars, threads, callVars, fatal, ioFault, pending,
                    lost, served, script, victim >>

\* waitForState lines 216-218: woken (by notify_all, spuriously, or by the
\* timeout), wait_for retakes the mutex and finds the predicate true.
WaitCheck(t) ==
    /\ Running
    /\ pc[t] = "wait"
    /\ CanLock
    /\ WaitPredicate(t)
    /\ mEventfdMutex' = t
    /\ pc' = [pc EXCEPT ![t] = "return"]
    /\ UNCHANGED << currentState, desiredState, event_fd, joinable,
                    workerVars, threads, callVars, fatal, history >>

\* waitForState lines 216-223: the 3 s pass with the predicate false, and
\* the fatal log follows.
Timeout(t) ==
    /\ Running
    /\ pc[t] = "wait"
    /\ CanLock
    /\ ~WaitPredicate(t)
    /\ WorkerBlocked
    /\ ControllersIdle
    /\ mEventfdMutex' = t
    /\ fatal' = TimeoutOutcome
    /\ victim' = t
    /\ pc' = [pc EXCEPT ![t] = "timedOut"]
    /\ UNCHANGED << currentState, desiredState, event_fd, joinable,
                    workerVars, threads, callVars, ioFault, pending,
                    waitHistory, script >>

\* waitForState lines 225-227: return true; Stop goes on to join.
Return(t) ==
    /\ Running
    /\ pc[t] = "return"
    /\ IF op[t] \in StopOps
         THEN /\ pc' = [pc EXCEPT ![t] = "join"]
              /\ UNCHANGED << mEventfdMutex, callVars, waitHistory, script >>
         ELSE Finish(t, "true")
    /\ UNCHANGED << currentState, desiredState, event_fd, joinable,
                    workerVars, threads, fatal, ioFault, pending, victim >>

\* Stop lines 120-122: thread.join() returns once RunThread has returned; on
\* a thread that is no longer joinable it throws std::system_error.
Join(t) ==
    /\ Running
    /\ pc[t] = "join"
    /\ IF joinable
         THEN /\ wpc = "exited"
              /\ joinable' = FALSE
              /\ Finish(t, "none")
              /\ UNCHANGED fatal
         ELSE /\ fatal' = "joinError"
              /\ UNCHANGED << joinable, mEventfdMutex, pc, callVars,
                              waitHistory, script >>
    /\ UNCHANGED << currentState, desiredState, event_fd, workerVars,
                    threads, ioFault, pending, victim >>

----------------------------------------------------------------------------
\* The worker's steps that need no fault to happen.
WorkerStep ==
    \/ ConsumeLock
    \/ ConsumeRead
    \/ ConsumeSetCurrent
    \/ ConsumeSetDesired
    \/ ConsumeReturn
    \/ HandlerReturn(FALSE)
    \/ ResetToIdle

RunThread == WorkerStep \/ HandlerReturn(TRUE)

\* The steps of an operation once called, the timeout apart.
Operation(t) ==
    \/ Lock(t)
    \/ SetDesired(t)
    \/ Signal(t)
    \/ FirstCheck(t)
    \/ WaitCheck(t)
    \/ Return(t)
    \/ Join(t)
    \/ Close(t)

Next ==
    \/ Start
    \/ RunThread
    \/ \E t \in threads :
         \/ \E s \in Requestable : moveToState(t, s) \/ waitForState(t, s)
         \/ Pause(t)
         \/ Resume(t)
         \/ Stop(t)
         \/ Destructor(t)
         \/ Operation(t)
         \/ Timeout(t)

Spec == Init /\ [][Next]_vars

\* One controller thread; every thread that can take a step of the code
\* eventually takes it (a thread is not starved of the mutex for ever), and
\* faults and timeouts are never forced.
Fairness ==
    /\ WF_vars(WorkerStep)
    /\ SF_vars(ConsumeLock)
    /\ \A t \in Threads : WF_vars(Operation(t)) /\ SF_vars(Lock(t))

FairSingle == InitSingle /\ [][Next]_vars /\ Fairness

----------------------------------------------------------------------------
\* Conditions the properties share.

\* The worker sits in a handler body that never returns.
Stalled == wpc \in InDispatch /\ hmode = "stalls"

\* The worker is not running its loop: never started, or returned on Stop.
NotLooping == wpc \in {"notStarted", "exited"}

\* Thread t holds an acknowledgement: waitForState found currentState ==
\* req[t] and has not returned to its caller yet.
Acknowledged(t) == pc[t] \in {"return", "join"}

----------------------------------------------------------------------------
\* C1.  For every requestable state S: at the moment waitForState(S) returns
\* success, currentState == S; and from then on, as long as the worker is
\* still in the dispatch of S (S's handler has not returned and the worker has
\* not acted on a later request), currentState is S and not a value from
\* before S, such as the Idle of the worker's unlocked reset.
C1_AcknowledgedStateIsCurrent ==
    \A t \in threads :
        /\ pc[t] = "return" => currentState = req[t]
        /\ Acknowledged(t) /\ wpc = Dispatch(req[t]) => currentState = req[t]

\* C2.  With one controller thread, a started worker that has not consumed
\* Stop, handlers that return and no I/O fault, a waitForState never ends in
\* the timeout abort.
C2_HandshakeAlwaysAcknowledged ==
    (threads = {1} /\ fatal = "timeout")
        => (ioFault \/ NotLooping \/ Stalled)

\* The worker thread has returned on Stop and has been joined.
Joined ==
    /\ wpc = "exited"
    /\ ~joinable
    /\ currentState = StopState

\* C3.  One controller thread, handlers that return once a request is
\* pending, no I/O fault: a Stop() called on a started worker, wherever the
\* worker is, never reaches a fatal log, and eventually returns with Stop
\* consumed, the loop left and the thread joined.
C3_StopCompletes ==
    /\ []((op[1] = "Stop" /\ ~ioFault /\ ~Stalled) => fatal = "none")
    /\ (op[1] = "Stop" /\ joinable)
           ~> ((pc[1] = "ready" /\ Joined) \/ ioFault \/ Stalled)

\* Stop() has returned after a join, with nothing gone wrong.
C3_Witness ==
    /\ pc[1] = "ready"
    /\ Joined
    /\ fatal = "none"
    /\ ~ioFault

\* C4.  One controller thread, no I/O fault, handlers that return: a Pause()
\* that is the first call after Start() (also when the worker has not
\* consumed yet) returns true; from then until the next call the worker is
\* blocked in the Pause case's poll with currentState == Pause; and after a
\* Resume() that follows and returns true, unless another call comes first,
\* the worker consumes Idle and is in IdleAsync again.
C4_PauseThenResume ==
    /\ []((script = "paused" /\ pc[1] = "ready" /\ ~ioFault)
             => (wpc = "PauseWait" /\ currentState = PauseState
                   /\ fatal = "none"))
    /\ (script = "pausing") ~> (script = "paused" \/ ioFault \/ Stalled)
    /\ (script = "resumed")
           ~> (\/ /\ wpc = "IdleAsync"
                  /\ currentState = Idle
                  /\ desiredState = Invalid
                  /\ event_fd = 0
               \/ script # "resumed"
               \/ ioFault)

\* After Pause() = true and Resume() = true the worker has consumed the Idle
\* request and is in IdleAsync.
C4_Witness ==
    /\ script = "resumed"
    /\ wpc = "IdleAsync"
    /\ currentState = Idle
    /\ desiredState = Invalid
    /\ event_fd = 0
    /\ ~ioFault

----------------------------------------------------------------------------
\* consumeState has read an event and holds the consumed state in `state`.
Consuming == wpc \in {"setCurrent", "setDesired", "notify"} /\ gotEvent

\* C5.  Last write wins: a consume that reads an event yields the state of
\* the latest store to desiredState, also when that store replaced an
\* unconsumed request, and the case of the switch the worker enters is the
\* one of that state.
C5_LastWriteWins ==
    /\ [](Consuming => (state = lastReq /\ state \in Requestable))
    /\ [][(Consuming /\ wpc = "notify" /\ wpc' # wpc)
             => wpc' = Dispatch(lastReq)]_vars

\* The worker consumes a request that replaced another, different one.
C5_Witness ==
    /\ Consuming
    /\ replaced
    /\ state = lastReq
    /\ currentState = lastReq

Critical(t) == pc[t] \in InCritical

\* C7.  moveToState calls of several threads are serialized by the mutex: a
\* thread between its store to desiredState and its eventfd write holds the
\* mutex, no two threads (worker included) are in their critical sections at
\* once, and whenever the mutex is free after stores that met no consume,
\* desiredState is the state of the latest store and, no write having
\* failed, the eventfd is pending.
C7_MoveToStateSerialized ==
    /\ \A t \in threads : Critical(t) => mEventfdMutex = t
    /\ wpc \in InConsume => mEventfdMutex = Worker
    /\ (mEventfdMutex = NoOwner /\ lastReq # Invalid)
          => (/\ desiredState = lastReq
              /\ desiredState \in Requestable
              /\ ~ioFault => event_fd = 1)

\* One thread is between its store and its eventfd write, having replaced
\* an unconsumed request for another state, while the other thread's
\* moveToState is blocked on the mutex.
C7_Witness ==
    /\ threads = {1, 2}
    /\ pc[1] = "signal" /\ op[1] = "moveToState"
    /\ pc[2] = "lock" /\ op[2] = "moveToState"
    /\ req[1] # req[2]
    /\ replaced
    /\ desiredState = req[1]
    /\ mEventfdMutex = 1

\* C8.  consumeState stores the consumed state to currentState and Invalid
\* to desiredState inside one critical section; desiredState then stays
\* Invalid until the store of the next moveToState; and whoever holds the
\* mutex other than the worker, or finds it free, sees desiredState Invalid
\* once the latest request has been consumed.
C8_ConsumeResetsDesired ==
    /\ [](wpc \in InConsume => mEventfdMutex = Worker)
    /\ [](wpc = "notify" => (currentState = state /\ desiredState = Invalid))
    /\ []((mEventfdMutex # Worker /\ lastReq = Invalid)
             => desiredState = Invalid)
    /\ [][(wpc = "notify" /\ wpc' # wpc)
             => (/\ currentState' = state
                 /\ desiredState' = Invalid
                 /\ mEventfdMutex' = NoOwner)]_vars
    /\ [][(desiredState = Invalid /\ desiredState' # Invalid)
             => \E t \in threads :
                   /\ pc[t] = "setDesired"
                   /\ pc'[t] = "signal"
                   /\ desiredState' = req[t]]_vars

\* A controller holds the mutex after the worker consumed a request and is
\* running its handler: currentState is the consumed state, desiredState is
\* Invalid.
C8_Witness ==
    /\ \E t \in threads : pc[t] = "setDesired" /\ mEventfdMutex = t
    /\ wpc \in {"PauseWait", "AuthenticateAsync", "EnrollAsync"}
    /\ wpc = Dispatch(currentState)
    /\ desiredState = Invalid
    /\ lastReq = Invalid

\* The steps of a controller that holds the mutex and is not blocked.
Progressing == {"setDesired", "signal", "check", "return"}

\* C9.  The worker holds the mutex only inside consumeState.  While it is in
\* a handler or in the Pause poll the mutex is free or held by a controller
\* that is not blocked, so a moveToState stores its request and writes the
\* eventfd without the handler returning; that request and its event stay
\* in place until the worker is back in consumeState.
C9_LockOnlyInConsume ==
    /\ [](mEventfdMutex = Worker => wpc \in InConsume)
    /\ []((Running /\ wpc \in InDispatch) =>
            /\ mEventfdMutex # Worker
            /\ mEventfdMutex \in threads
                  => pc[mEventfdMutex] \in Progressing)
    /\ [][(desiredState # Invalid /\ desiredState' = Invalid)
             => (wpc = "setDesired" /\ wpc' = "notify")]_vars
    /\ [][(event_fd = 1 /\ event_fd' = 0)
             => (wpc = "read" /\ wpc' # "read")]_vars

\* A request was stored and signalled while a handler that never returns was
\* running.
C9_Witness ==
    /\ Stalled
    /\ wpc = "AuthenticateAsync"
    /\ desiredState \in Requestable
    /\ event_fd = 1
    /\ \A t \in threads : pc[t] = "ready"
    /\ fatal = "none"

\* The worker is in no position to consume a request.
NeverConsumes == Stalled \/ NotLooping

\* C10 as claimed, for a worker that was started: with the worker stalled
\* in a handler or exited, no waitForState ends in success; a wait whose
\* request met no consume never reaches its successful return, for every
\* state and every currentState.
C10_UnconsumedWaitNeverSucceeds ==
    \A t \in threads :
        (pc[t] = "return" /\ op[t] = "waitForState"
            /\ (Stalled \/ wpc = "exited"))
            => served[t]

\* C10 as amended.  A wait that ends while currentState differs from the
\* requested state ends in the fatal timeout, and only there; a wait whose
\* request met no consume returns success only when wait_for's first test
\* of the predicate found currentState equal to the requested state already,
\* or when the requested state is Idle, which the worker also stores when a
\* handler returns.
C10_UnconsumedWaitAborts ==
    /\ [](\A t \in threads :
            (pc[t] = "return" /\ ~served[t])
               => (immediate[t] \/ req[t] = Idle))
    /\ [](\A t \in threads :
            (pc[t] = "return" /\ ~served[t] /\ NeverConsumes) => immediate[t])
    /\ [][\A t \in threads :
            (pc[t] = "wait" /\ pc'[t] # "wait" /\ currentState # req[t])
               => (/\ pc'[t] = "timedOut"
                   /\ fatal' = "timeout"
                   /\ victim' = t)]_vars

\* A waitForState whose eventfd write succeeded timed out on a worker that
\* is stalled in a handler and has not consumed the request.
C10_Witness ==
    /\ fatal = "timeout"
    /\ victim \in threads
    /\ op[victim] = "waitForState"
    /\ ~served[victim]
    /\ Stalled
    /\ desiredState = req[victim]
    /\ event_fd = 1
    /\ ~ioFault

----------------------------------------------------------------------------
\* Thread t is at its eventfd_write and takes it in this step.
Writes(t) == pc[t] = "signal" /\ (pc'[t] # "signal" \/ fatal' # fatal)

\* C11.  A failed eventfd_write makes moveToState return false, and
\* waitForState return false at once, without waiting and without the
\* timeout abort; only in Stop is it fatal.  A thread goes on to wait_for,
\* or returns true, only with the eventfd written.
C11_WriteFailureIsReturned ==
    /\ [][\A t \in threads :
            (Writes(t) /\ (event_fd' = 0 \/ (~ioFault /\ ioFault')))
               => IF op[t] \in StopOps
                    THEN fatal' = "stopFailed"
                    ELSE /\ pc'[t] = "ready"
                         /\ result'[t] = "false"
                         /\ fatal' = "none"
                         /\ mEventfdMutex' = NoOwner]_vars
    /\ [][\A t \in threads :
            (Writes(t) /\ (pc'[t] = "check" \/ result'[t] = "true"))
               => event_fd' = 1]_vars
    /\ [](fatal = "stopFailed"
             => \E t \in threads : pc[t] = "signal" /\ op[t] \in StopOps)
    /\ [](\A t \in threads :
             pc[t] \in {"check", "wait", "return", "join", "timedOut"}
                => Waits(op[t]))

\* Pause() has returned false after a failed eventfd_write, the process
\* going on.
C11_Witness ==
    /\ script = "pauseFailed"
    /\ pc[1] = "ready"
    /\ result[1] = "false"
    /\ desiredState = PauseState
    /\ event_fd = 0
    /\ fatal = "none"

----------------------------------------------------------------------------
\* Thread 1 enters Stop's body, in Stop() or in the destructor, and finds
\* the thread not joinable.
StopsNothing ==
    /\ pc[1] = "lock"
    /\ op[1] \in StopOps
    /\ ~joinable
    /\ pc'[1] # "lock"

\* C12.  One controller thread, no I/O fault, handlers that return: the
\* destructor of an object whose worker runs has Stop acknowledged and the
\* thread joined before it closes the eventfd, and it does get there; and
\* Stop's body on a thread that is not running (never started, or stopped
\* before) stores no request, writes no event, does not wait and reaches no
\* fatal log.
C12_DestructorStopsFirst ==
    /\ [](Closed => (/\ ~joinable
                     /\ NotLooping
                     /\ wpc = "exited" => currentState = StopState
                     /\ fatal = "none"))
    /\ [](pc[1] = "close" => (~joinable /\ NotLooping))
    /\ (op[1] = "~Thread" /\ joinable) ~> (Closed \/ ioFault \/ Stalled)
    /\ [][StopsNothing
            => (/\ pc'[1] \in {"ready", "close"}
                /\ desiredState' = desiredState
                /\ event_fd' = event_fd
                /\ mEventfdMutex' = NoOwner
                /\ fatal' = "none")]_vars

\* The destructor has closed the eventfd of an object whose worker was
\* started: the worker consumed Stop, left its loop and was joined.
C12_Witness ==
    /\ Closed
    /\ Joined
    /\ desiredState = Invalid
    /\ fatal = "none"
    /\ ~ioFault

----------------------------------------------------------------------------
\* The positions at which the worker is about to read or write currentState
\* or desiredState: consumeState's body and the store of line 105.
WorkerAccess == InConsume \cup {"reset"}

\* The positions at which a controller is about to read or write
\* currentState or desiredState or to write the eventfd.
ControllerAccess == {"setDesired", "signal", "check", "return"}

\* C13.  Every read and write of currentState and desiredState, by the
\* controllers and by the worker, the worker's reset of currentState to Idle
\* included, and every eventfd write, is done by a thread that holds
\* mEventfdMutex.
C13_AllAccessUnderLock ==
    /\ \A t \in threads : pc[t] \in ControllerAccess => mEventfdMutex = t
    /\ wpc \in WorkerAccess => mEventfdMutex = Worker

----------------------------------------------------------------------------
\* C14.  Stop is terminal: the worker that consumed Stop leaves the loop
\* with currentState == Stop, which then never changes; it runs no handler
\* and consumes nothing afterwards, so a request stored later stays in
\* desiredState and its event stays in the eventfd.  After every other
\* dispatch the worker stores Idle to currentState before its next consume,
\* and that store touches nothing else: no waiter is moved by it.
C14_StopIsTerminal ==
    /\ [](wpc = "exited" => currentState = StopState)
    /\ [][wpc = "exited"
            => (/\ wpc' = "exited"
                /\ currentState' = StopState
                /\ desiredState # Invalid => desiredState' # Invalid
                /\ event_fd = 1 => event_fd' = 1)]_vars
    /\ [][(wpc' = "exited" /\ wpc # "exited")
            => (wpc = "notify" /\ state = StopState
                   /\ currentState = StopState)]_vars
    /\ [][(wpc' = "consume" /\ wpc # "consume")
            => \/ wpc = "notStarted"
               \/ /\ wpc = "reset"
                  /\ currentState' = Idle
                  /\ UNCHANGED << desiredState, event_fd, mEventfdMutex,
                                  pc, fatal >>]_vars
    /\ [][(wpc \in InDispatch /\ wpc' # wpc) => wpc' = "reset"]_vars

\* A request was stored and signalled after the worker consumed Stop and
\* left its loop; nothing consumes it.
C14_Witness ==
    /\ wpc = "exited"
    /\ currentState = StopState
    /\ desiredState \in Requestable \ {StopState}
    /\ event_fd = 1
    /\ \A t \in threads : pc[t] = "ready"
    /\ fatal = "none"

----------------------------------------------------------------------------
\* The worker has not yet stored to currentState in its first consumeState.
BeforeFirstConsume == wpc \in {"notStarted", "consume", "read", "setCurrent"}

\* C15.  From the first consume on currentState is never Invalid: the state
\* a consume stores is Idle when no event was read and desiredState when one
\* was, which is never Invalid; and nothing stores Invalid later.
C15_CurrentStateNeverInvalid ==
    /\ [](currentState = Invalid => BeforeFirstConsume)
    /\ [](wpc = "setCurrent"
             => (/\ state = IF gotEvent THEN desiredState ELSE Idle
                 /\ state \in Requestable))
    /\ [][currentState # Invalid => currentState' # Invalid]_vars

\* A consume found no event and stored Idle; the worker runs IdleAsync.
C15_Witness ==
    /\ wpc = "IdleAsync"
    /\ currentState = Idle
    /\ desiredState = Invalid
    /\ event_fd = 0
    /\ \A t \in threads : pc[t] = "ready"

----------------------------------------------------------------------------
\* C16.  Unless the eventfd_write of the latest store failed (and Invalid
\* never being requested): whenever the mutex is free, the eventfd is
\* pending exactly when desiredState is not Invalid; and, failed writes or
\* not, consumeState never reads an event with desiredState Invalid, so its
\* fatal log "Requested state is invalid!" is never reached.
C16_SignalIffRequest ==
    /\ (mEventfdMutex = NoOwner /\ ~failedStore)
          => (event_fd = 1 <=> desiredState # Invalid)
    /\ mEventfdMutex = NoOwner
          => (event_fd = 1 => desiredState # Invalid)
    /\ wpc = "read" /\ event_fd = 1 => desiredState \in Requestable
    /\ fatal # "invalid"

\* The worker, in consumeState, is about to read a pending event whose
\* request replaced an earlier one.
C16_Witness ==
    /\ wpc = "read"
    /\ event_fd = 1
    /\ desiredState \in Requestable
    /\ replaced
    /\ mEventfdMutex = Worker

----------------------------------------------------------------------------
\* A request is recorded: stored in desiredState with its event written.
Recorded == desiredState # Invalid /\ event_fd = 1

\* The worker is blocked in the poll of the default IdleAsync or of the
\* Pause case.
InPoll == wpc \in {"IdleAsync", "PauseWait"} /\ hmode = "cancellable"

\* C17.  No lost wake-up.  One controller thread, a started worker that has
\* not left its loop, handler bodies that return: a recorded request, or
\* the one that replaces it, is eventually consumed (unless the process
\* aborts first); a worker in the poll of IdleAsync or of the Pause case
\* with a request recorded can leave the poll; and the event is taken only
\* by consumeState's eventfd_read.
C17_NoLostWakeup ==
    /\ (Recorded /\ ~NotLooping)
          ~> (desiredState = Invalid \/ Stalled \/ fatal # "none")
    /\ []((InPoll /\ Recorded) => HandlerMayReturn)
    /\ []((InPoll /\ desiredState # Invalid /\ mEventfdMutex = NoOwner
              /\ ~failedStore) => HandlerMayReturn)
    /\ [][(event_fd = 1 /\ event_fd' = 0)
             => (wpc = "read" /\ wpc' # "read" /\ gotEvent')]_vars

\* A request was recorded while the worker was blocked in the Pause case's
\* poll: the poll can return.
C17_Witness ==
    /\ wpc = "PauseWait"
    /\ hmode = "cancellable"
    /\ currentState = PauseState
    /\ Recorded
    /\ pc[1] = "ready"
    /\ mEventfdMutex = NoOwner
    /\ fatal = "none"

----------------------------------------------------------------------------
\* C18.  A moveToState(S) that returns false has no effect: when it
\* found a request for another state pending, then once its eventfd_write
\* has failed desiredState is not S but what it was before the call, and
\* the worker, woken by the event of the earlier request, does not consume S.
C18_FailedMoveHasNoEffect ==
    /\ (failedStore /\ replaced /\ wpc \notin InConsume)
          => desiredState # lastReq
    /\ (failedStore /\ replaced /\ Consuming) => state # lastReq

----------------------------------------------------------------------------
\* C19.  While the worker is inside the case of the switch it entered for
\* the consumed state (a handler body or the Pause case's poll),
\* currentState is that state; and currentState is written by the worker
\* only, in consumeState and at line 105, never by a controller operation.
C19_CurrentStateIsDispatched ==
    /\ [](wpc \in InDispatch => wpc = Dispatch(currentState))
    /\ [][currentState' # currentState
            => (/\ wpc \in {"setCurrent", "reset"}
                /\ wpc' # wpc
                /\ pc' = pc)]_vars

\* The worker is inside EnrollAsync, which does not return, and a controller
\* has recorded a request for another state: currentState is still Enroll.
C19_Witness ==
    /\ wpc = "EnrollAsync"
    /\ Stalled
    /\ currentState = Enroll
    /\ desiredState = Authenticate
    /\ event_fd = 1
    /\ \A t \in threads : pc[t] = "ready"

----------------------------------------------------------------------------
\* C20.  Stop() joins while it holds the mutex, and the join always
\* completes: a thread that reaches thread.join() holds the mutex, the
\* worker has left its last critical section and its loop, and the thread is
\* there to be joined, so that join returns and no Stop() ends in a failed
\* join.
C20_JoinAlwaysCompletes ==
    /\ \A t \in threads :
          pc[t] = "join" => (/\ mEventfdMutex = t
                             /\ wpc = "exited"
                             /\ currentState = StopState
                             /\ joinable)
    /\ fatal # "joinError"

=============================================================================
